---- MODULE Spec2Model ----
(***************************************************************************)
(* Reverse-mode gradient accumulation of grad.py: the Grad accumulator     *)
(* (map keyed by node identity, list of seeded outputs), its bprop         *)
(* traversal under the process-wide evaluation-mode stack, and the grad    *)
(* entry point.  The graph layer (gof.graph), the value layer and the mode *)
(* stack (core) are modelled from their contract.                          *)
(***************************************************************************)
EXTENDS Integers, Sequences, FiniteSets, TLC

\* ------------------------------------------------------------------ bounds
NumNodes == 4
MaxStack == 2
MaxGrads == 1
MaxCalls == 1

Nodes == 1..NumNodes

\* ------------------------------------------------------- core: value layer
Modes == {"eval", "build", "build_eval"}

\* core.UNDEFINED: the gradient term of an input no gradient flows to
UNDEFINED == [val |-> 0, data |-> "UNDEFINED"]
UNCOMPUTED == "UNCOMPUTED"
NoShape == "noshape"
Shapes == {"scalar", "mat"}
\* what a node's data slot can hold: the sentinel, an array with a shape, or
\* an object without a shape attribute
Payloads == {UNCOMPUTED, NoShape} \cup Shapes

\* no entry in the map
Absent == [val |-> 0, data |-> "absent"]
\* the accumulator itself as a returned value
GradRef == [val |-> 0, data |-> "Grad"]
NoErr == "none"

\* core.wrap(x): a literal value node holding the 0-d array of x
wrap(x) == [val |-> x, data |-> "scalar"]

\* a + b on value nodes: computed on construction in eval mode (s is the shape
\* the computation yields), only wired in build and build_eval mode
Plus(a, b, mode, s) ==
  [val |-> a.val + b.val, data |-> IF mode = "eval" THEN s ELSE UNCOMPUTED]

\* rval.compute(): materializes an UNCOMPUTED payload
compute(e, s) == IF e.data = UNCOMPUTED THEN [e EXCEPT !.data = s] ELSE e

\* core.current_mode(), core.build_mode(), core.pop_mode()
current_mode(stack) == stack[Len(stack)]
build_mode(stack) == Append(stack, "build")
pop_mode(stack) == SubSeq(stack, 1, Len(stack) - 1)

\* --------------------------------------------------------------- class Grad
\* an accumulator: map from node identity to entry, and the seeded outputs
EmptyGrad == [map |-> [n \in Nodes |-> Absent], outputs |-> << >>]

Ok(self) == [self |-> self, err |-> NoErr]
Fail(self, e) == [self |-> self, err |-> e]

contains(self, item) == item \in Nodes /\ self.map[item] # Absent

\* a lookup that answers a missing key instead of raising
getitem_default(self, item) ==
  [val |-> IF item \in Nodes THEN self.map[item] ELSE Absent, err |-> NoErr]

\* Grad.__getitem__: self.map[id(item)], a KeyError when there is no entry
getitem(self, item) ==
  IF item \in Nodes /\ self.map[item] # Absent
  THEN [val |-> self.map[item], err |-> NoErr]
  ELSE [val |-> Absent, err |-> "KeyError"]

setitem(self, item, v) == [self EXCEPT !.map[item] = v]

\* shape checks skipped only when both payloads are UNCOMPUTED
shape_check_both(rd, dr) ==
  IF rd = UNCOMPUTED /\ dr.data = UNCOMPUTED THEN NoErr
  ELSE IF rd = NoShape THEN "ValueError: r lacks shape"
  ELSE IF dr.data = NoShape THEN "ValueError: dr lacks shape"
  ELSE IF rd # dr.data THEN "NameError"
  ELSE NoErr

\* the shape checks of add, lines 58-69; the mismatch branch evaluates the
\* undefined names v and dv while building its ValueError
shape_check(rd, dr) ==
  IF rd = UNCOMPUTED \/ dr.data = UNCOMPUTED THEN NoErr
  ELSE IF rd = NoShape THEN "ValueError: r lacks shape"
  ELSE IF dr.data = NoShape THEN "ValueError: dr lacks shape"
  ELSE IF rd # dr.data THEN "NameError"
  ELSE NoErr

\* the new term stored over the entry
overwrite(self, r, dr, mode, s) == setitem(self, r, dr)

\* the accumulation of add, lines 72-75
accumulate(self, r, dr, mode, s) ==
  IF contains(self, r)
  THEN setitem(self, r, Plus(getitem(self, r).val, dr, mode, s))
  ELSE setitem(self, r, dr)

\* add without the UNDEFINED test of line 54
add_no_sentinel(self, r, rd, dr, mode, s) ==
  LET e == shape_check(rd, dr)
  IN IF e # NoErr THEN Fail(self, e) ELSE Ok(accumulate(self, r, dr, mode, s))

\* add that starts an entry at zero for an UNDEFINED term
add_undefined_as_zero(self, r, rd, dr, mode, s) ==
  IF dr = UNDEFINED
  THEN Ok(IF contains(self, r) THEN self
          ELSE setitem(self, r, [val |-> 0, data |-> UNCOMPUTED]))
  ELSE LET e == shape_check(rd, dr)
       IN IF e # NoErr THEN Fail(self, e)
          ELSE Ok(accumulate(self, r, dr, mode, s))

\* add that also registers r as a root
add_as_root(self, r, rd, dr, mode, s) ==
  IF dr = UNDEFINED THEN Ok(self)
  ELSE LET e == shape_check(rd, dr)
       IN IF e # NoErr THEN Fail(self, e)
          ELSE Ok([accumulate(self, r, dr, mode, s)
                     EXCEPT !.outputs = Append(@, r)])

\* Grad.add(r, dr); rd is r.data
add(self, r, rd, dr, mode, s) ==
  IF dr = UNDEFINED THEN Ok(self)
  ELSE LET e == shape_check(rd, dr)
       IN IF e # NoErr THEN Fail(self, e)
          ELSE Ok(accumulate(self, r, dr, mode, s))

\* add_output that accumulates and registers no root
add_output_no_root(self, r, rd, dr, mode, s) == add(self, r, rd, dr, mode, s)

\* add_output that appends the root before it accumulates
add_output_root_first(self, r, rd, dr, mode, s) ==
  LET o == [self EXCEPT !.outputs = Append(@, r)]
      a == add(o, r, rd, dr, mode, s)
  IN a

\* Grad.add_output(r, dr)
add_output(self, r, rd, dr, mode, s) ==
  LET a == add(self, r, rd, dr, mode, s)
  IN IF a.err # NoErr THEN a
     ELSE Ok([a.self EXCEPT !.outputs = Append(@, r)])

\* Grad.__init__(dct): dct is the sequence of the dict's items, each
\* [r, rd, dr] with rd the payload of the key r
RECURSIVE init_items(_, _, _, _)
init_items(self, items, mode, s) ==
  IF items = << >> THEN Ok(self)
  ELSE LET it == Head(items)
           a == add_output(self, it.r, it.rd, it.dr, mode, s)
       IN IF a.err # NoErr THEN a
          ELSE init_items(a.self, Tail(items), mode, s)

Grad_init(dct, mode, s) == init_items(EmptyGrad, dct, mode, s)

\* Grad.__call__(item): the entry, computed when the current mode is
\* build_eval; compute() acts on the object the map holds
call(self, item, mode, s) ==
  LET l == getitem(self, item)
  IN IF l.err # NoErr
     THEN [self |-> self, val |-> Absent, err |-> l.err, forced |-> FALSE]
     ELSE IF mode = "build_eval"
          THEN [self |-> setitem(self, item, compute(l.val, s)),
                val |-> compute(l.val, s), err |-> NoErr, forced |-> TRUE]
          ELSE [self |-> self, val |-> l.val, err |-> NoErr, forced |-> FALSE]

\* ------------------------------------------------------ gof.graph: the DAG
\* A graph gives every node its producer: a leaf has none, an "op" node is the
\* first output of an operation with inputs ins and gradient behaviour kind,
\* a "co" node is a further output of the operation whose first output is
\* lead.  Operations are named by their first output; inputs are lower-numbered
\* than outputs, so every graph is acyclic.
Kinds == {"grad", "undef"}

Leaf == [tag |-> "leaf", ins |-> {}, kind |-> "none", lead |-> 0]

DescChoices(g, n) ==
  {Leaf}
  \cup {[tag |-> "op", ins |-> S, kind |-> k, lead |-> n] :
          S \in (SUBSET (1..(n - 1))) \ {{}}, k \in Kinds}
  \cup {[tag |-> "co", ins |-> {}, kind |-> "none", lead |-> m] :
          m \in {x \in 1..(n - 1) : g[x].tag = "op"}}

RECURSIVE GraphsUpTo(_)
GraphsUpTo(n) ==
  IF n = 0 THEN {<< >>}
  ELSE UNION {{Append(g, d) : d \in DescChoices(g, n)} : g \in GraphsUpTo(n - 1)}

Graphs == GraphsUpTo(NumNodes)

Ops(g) == {n \in Nodes : g[n].tag = "op"}
op_inputs(g, o) == g[o].ins
op_outputs(g, o) == {n \in Nodes : g[n].lead = o}
owner(g, n) == g[n].lead

\* nodes reached walking backward from S, never past a node of stop
RECURSIVE Back(_, _, _, _)
Back(g, S, stop, n) ==
  IF n = 0 THEN S
  ELSE Back(g,
            IF n \in S /\ n \notin stop /\ g[n].tag # "leaf"
            THEN S \cup op_inputs(g, owner(g, n)) ELSE S,
            stop, n - 1)

Range(q) == {q[i] : i \in 1..Len(q)}

\* gof.graph.inputs(outputs): the leaves the outputs depend on
inputs(g, outs) ==
  {n \in Back(g, Range(outs), {}, NumNodes) : g[n].tag = "leaf"}

\* the operations between inputs and outputs
between(g, ins, outs) ==
  {owner(g, n) : n \in {x \in Back(g, Range(outs), ins, NumNodes) :
                          g[x].tag # "leaf" /\ x \notin ins}}

RECURSIVE Perms(_)
Perms(S) ==
  IF S = {} THEN {<< >>}
  ELSE UNION {{<<x>> \o p : p \in Perms(S \ {x})} : x \in S}

\* a feeds b: b consumes an output of a
feeds(g, a, b) == op_outputs(g, a) \cap op_inputs(g, b) # {}

\* gof.graph.io_toposort(inputs, outputs): the orders in which every operation
\* comes after the operations that produce its inputs
io_toposort(g, ins, outs) ==
  {p \in Perms(between(g, ins, outs)) :
     \A i, j \in 1..Len(p) : feeds(g, p[i], p[j]) => i < j}

\* the order taken as io_toposort gives it
forward_order(q) == q

\* the reversed order run through twice
revisit(q) ==
  [i \in 1..(2 * Len(q)) |-> q[Len(q) - ((i - 1) % Len(q))]]

\* list.__reversed__ of line 100
Reverse(q) == [i \in 1..Len(q) |-> q[Len(q) + 1 - i]]

\* ------------------------------------------------- core: op.update_gradient
\* the sum of the gradients accumulated for the nodes of S
RECURSIVE GradSum(_, _)
GradSum(self, S) ==
  IF S = {} THEN 0
  ELSE LET x == CHOOSE y \in S : TRUE
       IN getitem(self, x).val.val + GradSum(self, S \ {x})

RECURSIVE Ascending(_)
Ascending(S) ==
  IF S = {} THEN << >>
  ELSE LET x == CHOOSE y \in S : \A z \in S : y <= z
       IN <<x>> \o Ascending(S \ {x})

\* the local derivative of operation o with respect to its input i
Coef(o, i) == o + i

\* the calls of add that one update_gradient makes, in the order of the
\* operation's inputs, stopping at the first that raises; adds records them
RECURSIVE contribute(_, _, _, _, _, _)
contribute(self, terms, rd, mode, s, adds) ==
  IF terms = << >> THEN [self |-> self, err |-> NoErr, adds |-> adds]
  ELSE LET tm == Head(terms)
           a == add(self, tm.r, rd, tm.dr, mode, s)
           rec == Append(adds, [r |-> tm.r, dr |-> tm.dr, err |-> a.err])
       IN IF a.err # NoErr
          THEN [self |-> a.self, err |-> a.err, adds |-> rec]
          ELSE contribute(a.self, Tail(terms), rd, mode, s, rec)

\* op.update_gradient(grad_d): reads the gradient of every output (a KeyError
\* when one has no entry) and adds one term per input.  An expression built
\* outside eval mode is UNCOMPUTED.  An "undef" operation has no gradient for
\* its first input; raises: the operation's own gradient code fails.
update_gradient(g, o, self, mode, rd, s, raises) ==
  IF raises
  THEN [self |-> self, err |-> "OpError", adds |-> << >>]
  ELSE IF \E z \in op_outputs(g, o) : ~contains(self, z)
  THEN [self |-> self, err |-> "KeyError", adds |-> << >>]
  ELSE LET gz == GradSum(self, op_outputs(g, o))
           xs == Ascending(op_inputs(g, o))
           term(i) ==
             IF g[o].kind = "undef" /\ i = xs[1] THEN UNDEFINED
             ELSE [val |-> Coef(o, i) * gz,
                   data |-> IF mode = "eval" THEN s ELSE UNCOMPUTED]
           terms == [k \in 1..Len(xs) |-> [r |-> xs[k], dr |-> term(xs[k])]]
       IN contribute(self, terms, rd, mode, s, << >>)

\* ------------------------------------------------------------------- state
\* the threads of control that call grad; Main is the only one of a
\* single-threaded program
Main == "main"
Threads == {Main, "other"}

VARIABLES
  modes,    \* core's mode stack
  graph,    \* the expression graph the caller built
  fr,       \* per thread of control: the call in progress and its accumulator
  ret,      \* the outcome of the last call, none while a call is running
  ngrads,   \* accumulators made so far
  ncalls    \* methods called on a held accumulator so far

vars == <<modes, graph, fr, ret, ngrads, ncalls>>

Stacks == UNION {[1..k -> Modes] : k \in 1..MaxStack}

\* pc: where the thread is; self: the accumulator bound to rval/g; via: who
\* called bprop; order, idx: the reversed toposort and the loop position; err:
\* the exception in flight; cost, seed: the arguments of grad; entry: the mode
\* stack when the call began; invoked: the operations whose update_gradient
\* ran in this pass; adds: every call of add made on self; held: the caller
\* has a reference to self; overlapped: another thread's call was running
\* during this call; offmode: an update_gradient of this call ran in a mode
\* other than build; out: whether the call's rval(param) computed its result;
\* passes: the calls of bprop made on self
IdleFrame ==
  [pc |-> "idle", self |-> EmptyGrad, via |-> "none", order |-> << >>, idx |-> 0,
   err |-> NoErr, cost |-> 0, seed |-> 0, entry |-> << >>, invoked |-> << >>,
   adds |-> << >>, held |-> FALSE, overlapped |-> FALSE, offmode |-> FALSE,
   out |-> "none", passes |-> 0]

NoRet ==
  [op |-> "none", node |-> 0, err |-> NoErr, val |-> Absent, forced |-> FALSE,
   dr |-> Absent, rd |-> "none"]

Init ==
  /\ modes \in Stacks
  /\ graph \in Graphs
  /\ fr = [t \in Threads |-> IdleFrame]
  /\ ret = NoRet
  /\ ngrads = [t \in Threads |-> 0]
  /\ ncalls = 0

\* cost_grad: the default 1.0 of line 116, or a value the caller passes
DefaultCostGrad == 1
CostGrads == {DefaultCostGrad, 2}

None == 0
TermVals == {1, 2}

\* the gradient terms a caller hands to add
Terms == {UNDEFINED} \cup {[val |-> v, data |-> d] : v \in TermVals, d \in Payloads}

\* the payloads and shapes that can decide a step made in this mode: outside
\* eval mode every expression built is UNCOMPUTED and add compares no shape
StepData(mode) == IF mode = "eval" THEN Payloads ELSE {UNCOMPUTED}
StepShapes(mode) == IF mode = "eval" THEN Shapes ELSE {"scalar"}

Returned(o, n, e, v, f, dr, rd) ==
  [op |-> o, node |-> n, err |-> e, val |-> v, forced |-> f, dr |-> dr, rd |-> rd]

no_gate(mode) == FALSE

\* grad, line 127: the gate on the ambient mode
mode_gate(mode) == mode = "eval"

\* the pop as the last statement of the body, not in a finally clause
pop_unless_raised(stack, err) == IF err # NoErr THEN stack ELSE pop_mode(stack)

\* no pop at all
no_pop(stack, err) == stack

\* bprop, lines 97-103: the finally clause pops the mode stack whether or not
\* an exception err is in flight
finally_stack(stack, err) == pop_mode(stack)

\* bprop entered without its push
push_nothing(stack) == stack

\* bprop, line 96: core.build_mode() before the graph is queried
bprop_push(stack) == build_mode(stack)

\* a loop that swallows the exception of an update_gradient and goes on
after_step_swallow(err, idx, n) ==
  IF idx = n THEN "bprop_finally" ELSE "bprop_loop"

\* bprop, lines 100-103: after one update_gradient the loop goes on, unless
\* it raised or it was the last, and then the finally clause runs
after_step(err, idx, n) ==
  IF err # NoErr \/ idx = n THEN "bprop_finally" ELSE "bprop_loop"

\* an accumulator that starts from the map and roots of an existing one, as
\* state kept on the class would
shared_accumulator(existing, dct, mode, s) == init_items(existing, dct, mode, s)

\* Grad.__init__, lines 20-21: every instance starts from its own empty map
\* and root list, whatever accumulators exist
new_accumulator(existing, dct, mode, s) == Grad_init(dct, mode, s)

\* the accumulator made last by any thread
LastGrad == IF fr["other"].self # EmptyGrad THEN fr["other"].self ELSE fr[Main].self

\* ----------------------------------------------------------------- actions
\* grad(cost, param, cost_grad), lines 127-130: the mode gate and the seeded
\* accumulator
grad_enter(t, cost, rd, cost_grad, s) ==
  /\ fr[t].pc = "idle"
  /\ ngrads[t] < MaxGrads
  /\ ngrads' = [ngrads EXCEPT ![t] = @ + 1]
  /\ UNCHANGED <<modes, graph, ncalls>>
  /\ IF mode_gate(current_mode(modes))
     THEN /\ ret' = Returned("grad", None, "NotImplementedError", Absent, FALSE,
                             Absent, "none")
          /\ fr' = fr
     ELSE LET c == new_accumulator(
                     LastGrad,
                     <<[r |-> cost, rd |-> rd, dr |-> wrap(cost_grad)]>>,
                     current_mode(modes), s)
          IN IF c.err # NoErr
             THEN /\ ret' = Returned("grad", None, c.err, Absent, FALSE,
                                     wrap(cost_grad), rd)
                  /\ fr' = fr
             ELSE /\ ret' = NoRet
                  /\ fr' = [u \in Threads |->
                       IF u = t
                       THEN [IdleFrame EXCEPT
                          !.pc = "bprop_enter", !.self = c.self, !.via = "grad",
                          !.cost = cost, !.seed = cost_grad,
                          !.overlapped =
                            \E v \in Threads \ {t} : fr[v].pc # "idle",
                          !.adds = <<[r |-> cost, dr |-> wrap(cost_grad),
                                      err |-> NoErr]>>]
                       ELSE IF fr[u].pc # "idle"
                       THEN [fr[u] EXCEPT !.overlapped = TRUE]
                       ELSE fr[u]]

\* bprop, line 96: core.build_mode()
bprop_enter(t) ==
  /\ fr[t].pc = "bprop_enter"
  /\ modes' = bprop_push(modes)
  /\ fr' = [fr EXCEPT ![t].pc = "bprop_query", ![t].entry = modes,
                      ![t].invoked = << >>, ![t].err = NoErr,
                      ![t].passes = @ + 1]
  /\ UNCHANGED <<graph, ret, ngrads, ncalls>>

\* bprop, lines 98-100: the graph query and the reversed order
bprop_query(t) ==
  /\ fr[t].pc = "bprop_query"
  /\ \E p \in io_toposort(graph, inputs(graph, fr[t].self.outputs),
                          fr[t].self.outputs) :
       fr' = [fr EXCEPT ![t].order = Reverse(p), ![t].idx = 1,
                        ![t].pc = IF p = << >> THEN "bprop_finally"
                                  ELSE "bprop_loop"]
  /\ UNCHANGED <<modes, graph, ret, ngrads, ncalls>>

\* bprop, lines 99-100: the graph query raises
bprop_query_raise(t) ==
  /\ fr[t].pc = "bprop_query"
  /\ fr' = [fr EXCEPT ![t].err = "GraphError", ![t].pc = "bprop_finally"]
  /\ UNCHANGED <<modes, graph, ret, ngrads, ncalls>>

\* bprop, line 101: one op.update_gradient(self)
bprop_step(t, rd, s, raises) ==
  /\ fr[t].pc = "bprop_loop"
  /\ LET f == fr[t]
         o == f.order[f.idx]
         u == update_gradient(graph, o, f.self, current_mode(modes), rd, s,
                              raises)
     IN fr' = [fr EXCEPT ![t] =
          [f EXCEPT !.self = u.self,
                    !.adds = f.adds \o u.adds,
                    !.invoked = Append(f.invoked, o),
                    !.err = u.err,
                    !.idx = f.idx + 1,
                    !.offmode = f.offmode \/ current_mode(modes) # "build",
                    !.pc = after_step(u.err, f.idx, Len(f.order))]]
  /\ UNCHANGED <<modes, graph, ret, ngrads, ncalls>>

\* bprop, lines 102-103: finally core.pop_mode(); then back in grad, line 131
bprop_finally(t) ==
  /\ fr[t].pc = "bprop_finally"
  /\ modes' = finally_stack(modes, fr[t].err)
  /\ IF fr[t].err # NoErr
     THEN /\ ret' = Returned(fr[t].via, None, fr[t].err, Absent, FALSE, Absent,
                             "none")
          /\ fr' = [fr EXCEPT ![t].pc = "idle"]
     ELSE IF fr[t].via = "grad"
     THEN /\ ret' = ret
          /\ fr' = [fr EXCEPT ![t].pc = "grad_return"]
     ELSE /\ ret' = Returned("bprop", None, NoErr, Absent, FALSE, Absent, "none")
          /\ fr' = [fr EXCEPT ![t].pc = "idle"]
  /\ UNCHANGED <<graph, ngrads, ncalls>>

\* grad, lines 132-135: return rval, or rval(param)
grad_return(t, param, s) ==
  /\ fr[t].pc = "grad_return"
  /\ IF param = None
     THEN /\ ret' = Returned("grad", None, NoErr, GradRef, FALSE, Absent, "none")
          /\ fr' = [fr EXCEPT ![t].pc = "idle", ![t].held = TRUE]
     ELSE LET c == call(fr[t].self, param, current_mode(modes), s)
          IN /\ ret' = Returned("grad", param, c.err, c.val, c.forced, Absent,
                                "none")
             /\ fr' = [fr EXCEPT ![t].pc = "idle", ![t].self = c.self,
                                 ![t].out = IF c.err # NoErr THEN "raised"
                                            ELSE IF c.forced THEN "computed"
                                            ELSE "uncomputed"]
  /\ UNCHANGED <<modes, graph, ngrads, ncalls>>

Callable(t) == fr[t].pc = "idle" /\ fr[t].held /\ ncalls < MaxCalls

\* g[item]
do_getitem(t, item) ==
  /\ Callable(t)
  /\ LET l == getitem(fr[t].self, item)
     IN ret' = Returned("getitem", item, l.err, l.val, FALSE, Absent, "none")
  /\ ncalls' = ncalls + 1
  /\ UNCHANGED <<modes, graph, fr, ngrads>>

\* g(item)
do_call(t, item, s) ==
  /\ Callable(t)
  /\ LET c == call(fr[t].self, item, current_mode(modes), s)
     IN /\ ret' = Returned("call", item, c.err, c.val, c.forced, Absent, "none")
        /\ fr' = [fr EXCEPT ![t].self = c.self]
  /\ ncalls' = ncalls + 1
  /\ UNCHANGED <<modes, graph, ngrads>>

\* g.add(r, dr)
do_add(t, r, rd, dr, s) ==
  /\ Callable(t)
  /\ LET a == add(fr[t].self, r, rd, dr, current_mode(modes), s)
     IN /\ ret' = Returned("add", r, a.err, Absent, FALSE, dr, rd)
        /\ fr' = [fr EXCEPT ![t].self = a.self,
                            ![t].adds = Append(@, [r |-> r, dr |-> dr,
                                                   err |-> a.err])]
  /\ ncalls' = ncalls + 1
  /\ UNCHANGED <<modes, graph, ngrads>>

\* g.add_output(r, dr)
do_add_output(t, r, rd, dr, s) ==
  /\ Callable(t)
  /\ LET a == add_output(fr[t].self, r, rd, dr, current_mode(modes), s)
     IN /\ ret' = Returned("add_output", r, a.err, Absent, FALSE, dr, rd)
        /\ fr' = [fr EXCEPT ![t].self = a.self,
                            ![t].adds = Append(@, [r |-> r, dr |-> dr,
                                                   err |-> a.err])]
  /\ ncalls' = ncalls + 1
  /\ UNCHANGED <<modes, graph, ngrads>>

\* g.bprop() called by the holder of g
do_bprop(t) ==
  /\ Callable(t)
  /\ fr' = [fr EXCEPT ![t].pc = "bprop_enter", ![t].via = "bprop"]
  /\ ret' = NoRet
  /\ ncalls' = ncalls + 1
  /\ UNCHANGED <<modes, graph, ngrads>>

\* Grad(dct) with an empty dict or one item
new_grad(t, dct, s) ==
  /\ fr[t].pc = "idle"
  /\ ngrads[t] < MaxGrads
  /\ ngrads' = [ngrads EXCEPT ![t] = @ + 1]
  /\ LET c == new_accumulator(LastGrad, dct, current_mode(modes), s)
     IN IF c.err # NoErr
        THEN /\ ret' = Returned("Grad", None, c.err, Absent, FALSE, dct[1].dr,
                                dct[1].rd)
             /\ fr' = fr
        ELSE /\ ret' = Returned("Grad", None, NoErr, GradRef, FALSE, Absent,
                                "none")
             /\ fr' = [fr EXCEPT ![t] =
                  [IdleFrame EXCEPT
                     !.self = c.self, !.held = TRUE,
                     !.adds = [k \in 1..Len(dct) |->
                                 [r |-> dct[k].r, dr |-> dct[k].dr,
                                  err |-> NoErr]]]]
  /\ UNCHANGED <<modes, graph, ncalls>>

Dicts ==
  {<< >>} \cup {<<[r |-> r, rd |-> rd, dr |-> dr]>> :
                  r \in Nodes, rd \in Payloads, dr \in Terms}

\* the calls a caller makes on an accumulator it holds
Lookups(t) ==
  \/ \E item \in Nodes : do_getitem(t, item)
  \/ \E item \in Nodes, s \in Shapes : do_call(t, item, s)

\* grad and the traversal it runs
Next ==
  \E t \in {Main} :
    \/ \E cost \in Nodes, rd \in Payloads, cg \in CostGrads, s \in Shapes :
         grad_enter(t, cost, rd, cg, s)
    \/ bprop_enter(t)
    \/ bprop_query(t)
    \/ bprop_query_raise(t)
    \/ \E rd \in StepData(current_mode(modes)),
          s \in StepShapes(current_mode(modes)), raises \in BOOLEAN :
         bprop_step(t, rd, s, raises)
    \/ bprop_finally(t)
    \/ \E param \in Nodes \cup {None}, s \in Shapes : grad_return(t, param, s)
    \/ Lookups(t)

Spec == Init /\ [][Next]_vars

\* an accumulator made and used directly, on a graph of leaves
InitApi ==
  /\ modes \in Stacks
  /\ graph = [n \in Nodes |-> Leaf]
  /\ fr = [t \in Threads |-> IdleFrame]
  /\ ret = NoRet
  /\ ngrads = [t \in Threads |-> 0]
  /\ ncalls = 0

NextApi ==
  \E t \in {Main} :
    \/ \E dct \in Dicts, s \in Shapes : new_grad(t, dct, s)
    \/ \E r \in Nodes, rd \in Payloads, dr \in Terms, s \in Shapes :
         do_add(t, r, rd, dr, s)
    \/ \E r \in Nodes, rd \in Payloads, dr \in Terms, s \in Shapes :
         do_add_output(t, r, rd, dr, s)
    \/ Lookups(t)

SpecApi == InitApi /\ [][NextApi]_vars

\* two threads, each calling grad(cost, param), their steps interleaved in any
\* way, on a chain of operations, under the ambient mode build_eval of the
\* tests' setUp
ChainGraph ==
  [n \in Nodes |->
     IF n = 1 THEN Leaf
     ELSE [tag |-> "op", ins |-> {n - 1}, kind |-> "grad", lead |-> n]]

InitConc ==
  /\ modes = <<"build_eval">>
  /\ graph = ChainGraph
  /\ fr = [t \in Threads |-> IdleFrame]
  /\ ret = NoRet
  /\ ngrads = [t \in Threads |-> 0]
  /\ ncalls = 0

NextConc ==
  \E t \in Threads :
    \/ \E cost \in Nodes, rd \in Payloads, cg \in CostGrads, s \in Shapes :
         grad_enter(t, cost, rd, cg, s)
    \/ bprop_enter(t)
    \/ bprop_query(t)
    \/ \E rd \in StepData(current_mode(modes)),
          s \in StepShapes(current_mode(modes)), raises \in BOOLEAN :
         bprop_step(t, rd, s, raises)
    \/ bprop_finally(t)
    \/ \E param \in Nodes, s \in Shapes : grad_return(t, param, s)

SpecConc == InitConc /\ [][NextConc]_vars

\* one program making its calls one after the other: g = grad(cost), then
\* either a second g.bprop() on the same accumulator or a second grad of the
\* same cost with the same seed, or a Grad() made from the default seed map;
\* the record of the second accumulator is the frame "other"
InitTwice ==
  /\ modes \in {<<m>> : m \in Modes}
  /\ graph \in Graphs
  /\ fr = [t \in Threads |-> IdleFrame]
  /\ ret = NoRet
  /\ ngrads = [t \in Threads |-> 0]
  /\ ncalls = 0

grad_again(rd, s) ==
  /\ fr[Main].pc = "idle"
  /\ fr[Main].held
  /\ grad_enter("other", fr[Main].cost, rd, fr[Main].seed, s)

\* Grad() made with the default seed map while g is held
grad_default ==
  /\ fr[Main].pc = "idle"
  /\ fr[Main].held
  /\ new_grad("other", << >>, "scalar")

NextTwice ==
  \/ \E cost \in Nodes, rd \in Payloads, cg \in CostGrads, s \in Shapes :
       grad_enter(Main, cost, rd, cg, s)
  \/ \E rd \in Payloads, s \in Shapes : grad_again(rd, s)
  \/ grad_default
  \/ do_bprop(Main)
  \/ \E t \in Threads :
       \/ bprop_enter(t)
       \/ bprop_query(t)
       \/ \E rd \in StepData(current_mode(modes)),
             s \in StepShapes(current_mode(modes)) :
            bprop_step(t, rd, s, FALSE)
       \/ bprop_finally(t)
       \/ \E s \in Shapes : grad_return(t, None, s)

SpecTwice == InitTwice /\ [][NextTwice]_vars

\* ------------------------------------------------------------------ claims
\* a pass of bprop run by grad has ended, normally or with an exception
PassEnded(f) == f.via = "grad" /\ f.pc \in {"grad_return", "idle"}
PassCompleted(f) == PassEnded(f) /\ f.err = NoErr

\* the terms add accumulated for node n, in the order of the calls
Accepted(f, n) ==
  SelectSeq(f.adds, LAMBDA a : a.r = n /\ a.dr # UNDEFINED /\ a.err = NoErr)

RECURSIVE SeqSum(_)
SeqSum(q) == IF q = << >> THEN 0 ELSE Head(q).dr.val + SeqSum(Tail(q))

\* the operations of a pass that contribute a term to node n
Contributors(g, T, n) ==
  {c \in T : n \in op_inputs(g, c)
             /\ ~(g[c].kind = "undef" /\ \A i \in op_inputs(g, c) : n <= i)}

\* the chain rule over the graph: the seed of the cost plus, for every
\* contributing consumer, its local derivative times the gradient of its outputs
RECURSIVE Expected(_, _, _, _, _), ExpOuts(_, _, _, _, _),
          ExpCons(_, _, _, _, _, _)
ExpOuts(g, T, cost, seed, Z) ==
  IF Z = {} THEN 0
  ELSE LET z == CHOOSE y \in Z : TRUE
       IN Expected(g, T, cost, seed, z) + ExpOuts(g, T, cost, seed, Z \ {z})
ExpCons(g, T, cost, seed, n, C) ==
  IF C = {} THEN 0
  ELSE LET c == CHOOSE y \in C : TRUE
       IN Coef(c, n) * ExpOuts(g, T, cost, seed, op_outputs(g, c))
          + ExpCons(g, T, cost, seed, n, C \ {c})
Expected(g, T, cost, seed, n) ==
  (IF n = cost THEN seed ELSE 0)
  + ExpCons(g, T, cost, seed, n, Contributors(g, T, n))

Traversed(f) == between(graph, inputs(graph, f.self.outputs), f.self.outputs)

\* C1: in a pass of bprop, when an operation's update_gradient is invoked,
\* every operation of the traversal that consumes one of its outputs has been
\* invoked earlier in the pass.
C1_TopologicalOrder ==
  \A t \in Threads :
    LET f == fr[t]
    IN \A i \in 1..Len(f.invoked) :
         \A c \in Range(f.order) :
           feeds(graph, f.invoked[i], c)
             => \E j \in 1..(i - 1) : f.invoked[j] = c

\* a producer was invoked after two consumers of its outputs
C1_Witness ==
  \E t \in Threads :
    LET f == fr[t]
    IN \E i \in 1..Len(f.invoked) :
         Cardinality({j \in 1..(i - 1) :
                        feeds(graph, f.invoked[i], f.invoked[j])}) >= 2

\* C2: the entry of every node is the sum of the terms add accumulated for it
\* (the first initializes, the later ones add), and when a pass has completed
\* it is the chain-rule total, whichever topological order the pass took.
C2_Additivity ==
  \A t \in Threads :
    LET f == fr[t]
    IN \A n \in Nodes :
         /\ contains(f.self, n) => f.self.map[n].val = SeqSum(Accepted(f, n))
         /\ (PassCompleted(f) /\ contains(f.self, n))
              => f.self.map[n].val
                   = Expected(graph, Traversed(f), f.cost, f.seed, n)

\* a completed pass on a graph with two topological orders, in which a node
\* got terms from two consumers
C2_Witness ==
  \E t \in Threads :
    LET f == fr[t]
    IN /\ PassCompleted(f)
       /\ Cardinality(io_toposort(graph, inputs(graph, f.self.outputs),
                                  f.self.outputs)) >= 2
       /\ \E n \in Nodes :
            /\ Len(Accepted(f, n)) >= 2
            /\ Accepted(f, n)[1].dr.val # Accepted(f, n)[2].dr.val

\* C3: when a pass of bprop has ended, normally or by an exception of the
\* graph query or of an update_gradient, the mode stack is the stack bprop
\* was called with.
C3_ModeRestored ==
  \A t \in Threads : PassEnded(fr[t]) => modes = fr[t].entry

\* a pass that an update_gradient ended with an exception after another
\* operation had run
C3_Witness ==
  \E t \in Threads :
    /\ PassEnded(fr[t])
    /\ fr[t].err = "OpError"
    /\ Len(fr[t].invoked) >= 2
    /\ modes = fr[t].entry

\* C4: a grad call made while the ambient mode is eval raises
\* NotImplementedError and changes nothing: no accumulator, no
\* update_gradient, the same mode stack.
C4_ModeGating ==
  [][(ngrads' # ngrads /\ current_mode(modes) = "eval")
       => /\ ret'.op = "grad"
          /\ ret'.err = "NotImplementedError"
          /\ fr' = fr
          /\ modes' = modes]_vars

C4_Witness ==
  /\ ret.op = "grad"
  /\ ret.err = "NotImplementedError"
  /\ current_mode(modes) = "eval"
  /\ \A t \in Threads : fr[t] = IdleFrame

\* C5: grad(cost) returns the accumulator and computes nothing; grad(cost,
\* param) returns param's entry, and calls compute() on it exactly when the
\* ambient mode of the grad call is build_eval.
C5_ReturnRule ==
  \A t \in Threads :
    LET f == fr[t]
    IN (ret.op = "grad" /\ ret.err = NoErr /\ f.via = "grad" /\ f.pc = "idle")
         => IF ret.node = None
            THEN /\ ret.val = GradRef
                 /\ ~ret.forced
                 /\ \A n \in Nodes :
                      (contains(f.self, n) /\ n # f.cost)
                        => f.self.map[n].data = UNCOMPUTED
            ELSE /\ ret.val = f.self.map[ret.node]
                 /\ ret.forced <=> current_mode(f.entry) = "build_eval"
                 /\ ret.forced => ret.val.data # UNCOMPUTED
                 /\ (~ret.forced /\ ret.node # f.cost)
                      => ret.val.data = UNCOMPUTED

\* under build_eval, the gradient of a node other than the cost came back
\* computed
C5_Witness ==
  \E t \in Threads :
    /\ fr[t].via = "grad"
    /\ ret.op = "grad" /\ ret.err = NoErr
    /\ ret.node \notin {None, fr[t].cost}
    /\ current_mode(fr[t].entry) = "build_eval"
    /\ ret.forced
    /\ ret.val.data \in Shapes

\* C6: a lookup g[item] or g(item), and the rval(param) of grad, of a node
\* without an entry raises KeyError and changes neither the map, the roots nor
\* the mode stack; in grad the mode stack is then the ambient one.
C6_MissingGradient ==
  [][\A t \in Threads :
       /\ (Callable(t) /\ ncalls' # ncalls /\ ret'.op \in {"getitem", "call"}
           /\ ~contains(fr[t].self, ret'.node))
            => /\ ret'.err = "KeyError"
               /\ fr'[t].self = fr[t].self
               /\ modes' = modes
       /\ (fr[t].pc = "grad_return" /\ fr'[t].pc = "idle" /\ ret'.node # None
           /\ ~contains(fr[t].self, ret'.node))
            => /\ ret'.op = "grad"
               /\ ret'.err = "KeyError"
               /\ fr'[t].self = fr[t].self
               /\ modes' = fr[t].entry]_vars

\* grad(cost, param) raised KeyError for a param of the graph that got no
\* term, after a pass that invoked an operation
C6_Witness ==
  \E t \in Threads :
    /\ ret.op = "grad" /\ ret.err = "KeyError" /\ ret.node # None
    /\ fr[t].err = NoErr
    /\ Len(fr[t].invoked) >= 1
    /\ ~contains(fr[t].self, ret.node)
    /\ modes = fr[t].entry

\* C7: add(r, UNDEFINED) raises nothing and leaves the accumulator as it is,
\* whether or not r has an entry and whatever r's payload.
C7_UndefinedNoOp ==
  [][\A t \in Threads :
       (ncalls' # ncalls /\ ret'.op = "add" /\ ret'.dr = UNDEFINED)
         => /\ ret'.err = NoErr
            /\ fr'[t].self = fr[t].self]_vars

\* UNDEFINED was added to a node that has an entry and a payload without shape
C7_Witness ==
  \E t \in Threads :
    /\ ret.op = "add" /\ ret.dr = UNDEFINED /\ ret.err = NoErr
    /\ ret.rd = NoShape
    /\ contains(fr[t].self, ret.node)

\* C8: add(r, dr) with two computed, shape-bearing payloads of different
\* shapes raises the ValueError of the shape mismatch.
C8_ShapeMismatchError ==
  (ret.op = "add" /\ ret.dr # UNDEFINED /\ ret.rd \in Shapes
   /\ ret.dr.data \in Shapes /\ ret.rd # ret.dr.data)
    => ret.err = "ValueError: r, dr shape mismatch"

\* C9: after grad seeded the accumulator with the default cost_grad, the roots
\* are [cost] and cost's entry is wrap(1.0), through the traversal and after
\* it, and grad(cost, cost) returns that value.
C9_SingleSeed ==
  \A t \in Threads :
    LET f == fr[t]
    IN (f.via = "grad" /\ f.seed = DefaultCostGrad)
         => /\ f.self.outputs = <<f.cost>>
            /\ f.self.map[f.cost] = wrap(1)
            /\ (f.pc = "idle" /\ ret.op = "grad" /\ ret.err = NoErr
                /\ ret.node = f.cost)
                 => ret.val = wrap(1)

\* grad(cost, cost) returned after a pass that invoked two operations
C9_Witness ==
  \E t \in Threads :
    LET f == fr[t]
    IN /\ f.via = "grad" /\ f.seed = DefaultCostGrad /\ f.pc = "idle"
       /\ ret.op = "grad" /\ ret.err = NoErr /\ ret.node = f.cost
       /\ ret.val = wrap(1)
       /\ Len(f.invoked) >= 2

\* C10 as stated: once a pass has ended, a node has an entry exactly when add
\* or add_output was called for it.
C10_EntryIffContributed ==
  \A t \in Threads :
    LET f == fr[t]
    IN PassEnded(f)
         => \A n \in Nodes :
              contains(f.self, n) <=> \E k \in 1..Len(f.adds) : f.adds[k].r = n

\* C10, amended: once a pass has ended, a node has an entry exactly when add
\* or add_output accumulated for it a term other than UNDEFINED.
C10_EntryIffAccumulated ==
  \A t \in Threads :
    LET f == fr[t]
    IN PassEnded(f)
         => \A n \in Nodes : contains(f.self, n) <=> Accepted(f, n) # << >>

\* a completed pass in which one node got only UNDEFINED and another a term
C10_Witness ==
  \E t \in Threads :
    LET f == fr[t]
    IN /\ PassCompleted(f)
       /\ \E n \in Nodes :
            /\ ~contains(f.self, n)
            /\ \E k \in 1..Len(f.adds) : f.adds[k].r = n
       /\ \E n \in Nodes : n # f.cost /\ contains(f.self, n)

\* C12: whatever the ambient mode, bprop pushes build before it queries the
\* graph and keeps it until its finally clause: from the query to the pop the
\* stack is the stack at entry followed by exactly one build, and every
\* update_gradient of the pass starts with current_mode() = build
C12_BuildDuringTraversal ==
  \A t \in Threads :
    /\ ~fr[t].offmode
    /\ fr[t].pc \in {"bprop_query", "bprop_loop", "bprop_finally"}
         => /\ modes = Append(fr[t].entry, "build")
            /\ current_mode(modes) = "build"

C12_Witness ==
  \E t \in Threads :
    /\ fr[t].pc = "bprop_loop"
    /\ Len(fr[t].invoked) >= 1
    /\ current_mode(fr[t].entry) = "build_eval"
    /\ Len(fr[t].entry) = 2
    /\ modes = Append(fr[t].entry, "build")

\* C13: add(r, dr) with dr not UNDEFINED and the payload of r or of dr
\* UNCOMPUTED compares no shape and raises nothing: the term is accumulated,
\* starting the entry of r or added to it, whatever the other payload is (a
\* shape that would mismatch, or an object without a shape)
C13_UncomputedSkipsShapeCheck ==
  [][\A t \in Threads :
       (/\ fr'[t] # fr[t]
        /\ ncalls' # ncalls
        /\ ret'.op = "add"
        /\ ret'.dr # UNDEFINED
        /\ (ret'.rd = UNCOMPUTED \/ ret'.dr.data = UNCOMPUTED))
       => /\ ret'.err = NoErr
          /\ contains(fr'[t].self, ret'.node)
          /\ IF contains(fr[t].self, ret'.node)
             THEN fr'[t].self.map[ret'.node].val
                    = fr[t].self.map[ret'.node].val + ret'.dr.val
             ELSE fr'[t].self.map[ret'.node] = ret'.dr]_vars

C13_Witness ==
  \E t \in Threads :
    /\ ret.op = "add" /\ ret.err = NoErr
    /\ ret.rd = UNCOMPUTED /\ ret.dr.data = NoShape /\ ret.dr.val = 1
    /\ Len(fr[t].adds) = 2
    /\ fr[t].adds[1].r = ret.node /\ fr[t].adds[1].dr.data = "mat"
    /\ fr[t].self.map[ret.node].val = 3

\* C14: add_output(node, term) accumulates term into the entry of node by the
\* rules of add and, when add raised nothing, appends node to the root list
\* exactly once; seeding one node with a and then b leaves a + b in its
\* entry; when add fails its check the node is not appended and the
\* accumulator is as before
C14_AddOutputRegistersRoot ==
  [][\A t \in Threads :
       (fr'[t] # fr[t] /\ ncalls' # ncalls /\ ret'.op = "add_output")
       => LET old == fr[t].self
              new == fr'[t].self
              r == ret'.node
          IN IF ret'.err # NoErr THEN new = old
             ELSE /\ new.outputs = Append(old.outputs, r)
                  /\ \A n \in Nodes \ {r} : new.map[n] = old.map[n]
                  /\ IF ret'.dr = UNDEFINED THEN new.map[r] = old.map[r]
                     ELSE IF contains(old, r)
                     THEN new.map[r].val = old.map[r].val + ret'.dr.val
                     ELSE new.map[r] = ret'.dr]_vars

\* the node seeded with 2 by Grad({node: 2}) and then with 1 by add_output
C14_Witness ==
  \E t \in Threads :
    /\ ret.op = "add_output" /\ ret.err = NoErr /\ ret.dr.val = 1
    /\ fr[t].self.outputs = <<ret.node, ret.node>>
    /\ fr[t].adds[1].dr.val = 2
    /\ fr[t].self.map[ret.node].val = 3

\* C15: add(r, dr) changes at most the map entry keyed by the identity of r:
\* the entry of every other node, the root list and the mode stack are as
\* before, and add never registers r as a root
C15_AddFrame ==
  [][\A t \in Threads :
       (fr'[t] # fr[t] /\ ncalls' # ncalls /\ ret'.op = "add")
       => /\ \A n \in Nodes \ {ret'.node} :
               fr'[t].self.map[n] = fr[t].self.map[n]
          /\ fr'[t].self.outputs = fr[t].self.outputs
          /\ ret'.node \notin Range(fr'[t].self.outputs)
               \ Range(fr[t].self.outputs)
          /\ modes' = modes
          /\ \A u \in Threads \ {t} : fr'[u] = fr[u]]_vars

\* an add that started the entry of r beside the entry of a seeded root
C15_Witness ==
  \E t \in Threads :
    /\ ret.op = "add" /\ ret.err = NoErr /\ ret.dr # UNDEFINED
    /\ Len(fr[t].adds) = 2
    /\ fr[t].adds[1].r # ret.node
    /\ fr[t].self.outputs = <<fr[t].adds[1].r>>
    /\ fr[t].self.map[fr[t].adds[1].r] = fr[t].adds[1].dr
    /\ fr[t].self.map[ret.node] = ret.dr

\* the hazard of two grad(cost, param) calls started under the ambient
\* mode build_eval on two threads that share the mode stack: a call returns
\* its gradient uncomputed, or one of its update_gradient runs in a mode other
\* than build
Hazard(f) == f.out = "uncomputed" \/ f.offmode

\* C16: when the two calls run one after the other no call meets the hazard;
\* a call that meets it overlapped in time with the other call, and such a
\* state is reachable (C16_Witness) when the steps of the calls interleave
C16_HazardOnlyWhenInterleaved ==
  \A t \in Threads : Hazard(fr[t]) => fr[t].overlapped

\* both calls have returned without an exception, every push is popped, and
\* one of them returned a gradient it had not computed
C16_Witness ==
  /\ \A t \in Threads : fr[t].pc = "idle" /\ fr[t].via = "grad" /\ fr[t].err = NoErr
  /\ modes = <<"build_eval">>
  /\ \E t \in Threads :
       /\ fr[t].out = "uncomputed"
       /\ fr[t].overlapped
       /\ \A u \in Threads \ {t} : fr[u].out = "computed"

\* C17: when an update_gradient raises during bprop the traversal stops at
\* that operation (no operation later in the order is invoked), the error
\* reaches the caller, and bprop rolls nothing back: the contributions
\* deposited by the operations before it are still in the map; the finally
\* clause restores the mode stack and nothing else
C17_NoRollbackOnFailure ==
  [][\A t \in Threads :
       /\ (fr[t].pc = "bprop_loop" /\ fr'[t] # fr[t] /\ fr'[t].err # NoErr)
          => /\ fr'[t].pc = "bprop_finally"
             /\ \A n \in Nodes :
                  contains(fr[t].self, n)
                    => /\ contains(fr'[t].self, n)
                       /\ fr'[t].self.map[n].val = SeqSum(Accepted(fr'[t], n))
       /\ (fr[t].pc = "bprop_finally" /\ fr'[t] # fr[t] /\ fr[t].err # NoErr)
          => /\ fr'[t].pc = "idle"
             /\ fr'[t].self = fr[t].self
             /\ fr'[t].invoked = fr[t].invoked
             /\ fr[t].invoked = SubSeq(fr[t].order, 1, Len(fr[t].invoked))
             /\ ret'.err = fr[t].err
             /\ modes' = fr[t].entry]_vars

\* the second of three operations raised: the first one's contribution is in
\* the map and the third was never invoked
C17_Witness ==
  \E t \in Threads :
    LET f == fr[t]
    IN /\ f.pc = "idle" /\ f.via = "grad" /\ f.err = "OpError"
       /\ ret.op = "grad" /\ ret.err = "OpError"
       /\ Len(f.order) = 3 /\ f.invoked = SubSeq(f.order, 1, 2)
       /\ \E n \in Nodes \ {f.cost} : contains(f.self, n)
       /\ modes = f.entry

\* a pass of bprop, run by grad or called on a held accumulator, has completed
PassDone(f) ==
  f.via \in {"grad", "bprop"} /\ f.pc \in {"grad_return", "idle"} /\ f.err = NoErr

\* C18: one pass of bprop invokes update_gradient exactly once for every
\* operation of the topological order; the accumulator keeps no record that a
\* pass ran, so a second bprop on the same accumulator invokes every operation
\* again and adds a second round of contributions on top of the entries the
\* first pass left: every node with a contributing consumer has received its
\* contributions twice and holds more than the gradient of the first pass
C18_OneVisitPerPass ==
  \A t \in Threads :
    LET f == fr[t]
        T == Traversed(f)
    IN PassDone(f)
       => /\ Len(f.invoked) = Cardinality(T)
          /\ Range(f.invoked) = T
          /\ \A n \in Nodes \ {f.cost} :
               Len(SelectSeq(f.adds, LAMBDA a : a.r = n))
                 = f.passes * Cardinality({c \in T : n \in op_inputs(graph, c)})
          /\ f.passes >= 2
             => \A n \in Nodes :
                  Contributors(graph, T, n) # {}
                  => /\ contains(f.self, n)
                     /\ f.self.map[n].val = SeqSum(Accepted(f, n))
                     /\ f.self.map[n].val
                          > Expected(graph, T, f.cost, f.seed, n)

\* a second pass over two operations or more has completed
C18_Witness ==
  \E t \in Threads :
    LET f == fr[t]
    IN /\ f.via = "bprop" /\ f.pc = "idle" /\ f.err = NoErr /\ ret.op = "bprop"
       /\ f.passes = 2
       /\ Len(f.invoked) >= 2
       /\ \E n \in Nodes :
            /\ Contributors(graph, Traversed(f), n) # {}
            /\ f.self.map[n].val > Expected(graph, Traversed(f), f.cost, f.seed, n)

\* the accumulator holds exactly the gradient of one pass from its seed
OnePass(f) ==
  /\ f.self.outputs = <<f.cost>>
  /\ \A n \in Nodes :
       contains(f.self, n)
         => f.self.map[n].val
              = Expected(graph, Traversed(f), f.cost, f.seed, n)

\* C19: every Grad instance, the one made from the default empty seed map
\* included, and every grad call starts from its own empty map and root list:
\* what is contributed to one accumulator never appears in another, and
\* grad(cost) called twice on the same graph in the same mode gives two
\* accumulators with equal entries, the second not doubled
C19_AccumulatorsIndependent ==
  LET a == fr[Main]
      b == fr["other"]
  IN /\ (b.via = "none" /\ ngrads["other"] > 0) => b.self = EmptyGrad
     /\ (b.via = "grad" /\ b.pc = "bprop_enter")
          => /\ b.self.outputs = <<b.cost>>
             /\ b.self.map = [EmptyGrad.map EXCEPT ![b.cost] = wrap(b.seed)]
     /\ (b.via = "grad" /\ PassCompleted(b)) => OnePass(b)
     /\ (a.via = "grad" /\ PassCompleted(a)) => OnePass(a)
     /\ (a.via = "grad" /\ PassCompleted(a) /\ PassCompleted(b)
         /\ a.cost = b.cost /\ a.seed = b.seed)
          => b.self = a.self

\* two completed grad calls of the same cost over two operations or more
C19_Witness ==
  LET a == fr[Main]
      b == fr["other"]
  IN /\ a.via = "grad" /\ b.via = "grad"
     /\ PassCompleted(a) /\ PassCompleted(b)
     /\ a.pc = "idle" /\ b.pc = "idle"
     /\ Len(b.invoked) >= 2
     /\ a.cost = b.cost /\ a.seed = b.seed
     /\ b.self = a.self
     /\ \E n \in Nodes \ {b.cost} : contains(b.self, n) /\ b.self.map[n].val > 1

====
